---- MODULE Spec2Model ----
(***************************************************************************)
(* airops: shell command strings for docker build / docker run / docker    *)
(* login / git clone, handed to an SSH operator.                           *)
(*                                                                         *)
(* A Python str is a sequence of one-character strings; a value that may  *)
(* be None is None or Some(v); a dict is the sequence of its (key, value)  *)
(* items in insertion order; **kwargs is a function from option names to   *)
(* values.                                                                 *)
(***************************************************************************)
EXTENDS Integers, Sequences, FiniteSets, TLC

VARIABLES self, op, args, ret, ssh

vars == <<self, op, args, ret, ssh>>

(* ---------------------------------------------------------------- bounds *)
MaxCalls == 2
MaxArgs == 1
MaxLen == 3
MaxItems == 2

(* ------------------------------------------------------------ Python bits *)
None == [none |-> TRUE]

Some(v) == [none |-> FALSE, v |-> v]

(* bool(x) of a str, a list or None *)
Truthy(x) == ~x.none /\ Len(x.v) > 0

Raise(exc) == [kind |-> "raise", exc |-> exc]

Str(s) == [kind |-> "str", value |-> s]

RECURSIVE Concat(_)
Concat(lists) ==
    IF lists = <<>> THEN <<>> ELSE Head(lists) \o Concat(Tail(lists))

RECURSIVE Join(_, _)
Join(sep, parts) ==
    IF parts = <<>> THEN <<>>
    ELSE IF Len(parts) = 1 THEN parts[1]
    ELSE parts[1] \o sep \o Join(sep, Tail(parts))

(* the characters re's [\w@%+=:,./-] (ASCII) matches, among those used here *)
SafeChars ==
    { "a", "b", "c", "d", "e", "f", "g", "h", "i", "k", "l", "m", "n", "o",
      "p", "r", "s", "t", "u", "v", "w", "x", "y", "K", "0", "1", "2", "8", "_",
      "@", "%", "+", "=", ":", ",", ".", "/", "-" }

RECURSIVE ReplaceQuote(_)
ReplaceQuote(s) ==
    IF s = <<>> THEN <<>>
    ELSE IF Head(s) = "'"
         THEN <<"'", "\"", "'", "\"", "'">> \o ReplaceQuote(Tail(s))
         ELSE <<Head(s)>> \o ReplaceQuote(Tail(s))

shlex_quote_unescaped(s) ==
    IF s = <<>> THEN <<"'", "'">>
    ELSE IF \A i \in 1..Len(s) : s[i] \in SafeChars THEN s
    ELSE <<"'">> \o s \o <<"'">>

shlex_quote_twice(s) ==
    LET once == IF s = <<>> THEN <<"'", "'">>
                ELSE IF \A i \in 1..Len(s) : s[i] \in SafeChars THEN s
                ELSE <<"'">> \o ReplaceQuote(s) \o <<"'">>
    IN  IF \A i \in 1..Len(once) : once[i] \in SafeChars THEN once
        ELSE <<"'">> \o ReplaceQuote(once) \o <<"'">>

shlex_quote(s) ==
    IF s = <<>> THEN <<"'", "'">>
    ELSE IF \A i \in 1..Len(s) : s[i] \in SafeChars THEN s
    ELSE <<"'">> \o ReplaceQuote(s) \o <<"'">>

(* [shlex.quote(arg) for arg in args] *)
safe_args(tokens) == [i \in 1..Len(tokens) |-> shlex_quote(tokens[i])]

(* the character U+0060 (grave accent), which cannot be written in a string *)
BQ == "U+0060"

SP == <<" ">>
AND_AND == <<" ", "&", "&", " ">>

(* ------------------------------------------------------------ the words *)
w_docker == <<"d", "o", "c", "k", "e", "r">>
w_run == <<"r", "u", "n">>
w_build == <<"b", "u", "i", "l", "d">>
w_login == <<"l", "o", "g", "i", "n">>
w_git == <<"g", "i", "t">>
w_clone == <<"c", "l", "o", "n", "e">>
f_d == <<"-", "d">>
f_i == <<"-", "i">>
f_t == <<"-", "t">>
f_u == <<"-", "u">>
f_p == <<"-", "p">>
f_e == <<"-", "e">>
f_v == <<"-", "v">>
f_f == <<"-", "f">>
f_rm == <<"-", "-", "r", "m">>
f_name == <<"-", "-", "n", "a", "m", "e">>
f_build_arg == <<"-", "-", "b", "u", "i", "l", "d", "-", "a", "r", "g">>
f_no_cache == <<"-", "-", "n", "o", "-", "c", "a", "c", "h", "e">>
f_target == <<"-", "-", "t", "a", "r", "g", "e", "t">>
f_pull == <<"-", "-", "p", "u", "l", "l">>
f_platform == <<"-", "-", "p", "l", "a", "t", "f", "o", "r", "m">>
f_verbose == <<"-", "-", "v", "e", "r", "b", "o", "s", "e">>
f_branch == <<"-", "-", "b", "r", "a", "n", "c", "h">>
DOT == <<".">>

(* ---------------------------------------------------------- DockerRunFlag *)
DockerRunFlag_detach == <<f_d>>
DockerRunFlag_interactive == <<f_i>>
DockerRunFlag_tty == <<f_t>>
DockerRunFlag_temp_container == <<f_rm>>
DockerRunFlag_name(n) == <<f_name, n>>

(* for k, v in items: arg += [flag, f"{k}{sep}{v}"] *)
RECURSIVE PairFlags(_, _, _)
PairFlags(flag, sep, items) ==
    IF items = <<>> THEN <<>>
    ELSE <<flag, items[1][1] \o sep \o items[1][2]>>
         \o PairFlags(flag, sep, Tail(items))

env_joined(envs) ==
    IF envs = <<>> THEN <<>>
    ELSE <<f_e, Join(<<",">>, [i \in 1..Len(envs) |-> envs[i][1] \o <<"=">> \o envs[i][2]])>>

DockerRunFlag_publish(ports) == PairFlags(f_p, <<":">>, ports)
DockerRunFlag_env(envs) == PairFlags(f_e, <<"=">>, envs)
DockerRunFlag_volume(vol) == PairFlags(f_v, <<":">>, vol)

(* -------------------------------------------------------- DockerBuildFlag *)
DockerBuildFlag_build_arg(envs) == PairFlags(f_build_arg, <<"=">>, envs)
DockerBuildFlag_file(f) == <<f_f, f>>
DockerBuildFlag_no_cache == <<f_no_cache>>
DockerBuildFlag_target(t) == <<f_target, t>>
DockerBuildFlag_pull == <<f_pull>>
DockerBuildFlag_platform(p) == <<f_platform, p>>

(* ----------------------------------------------------------- GitCloneFlag *)
GitCloneFlag_verbose == <<f_verbose>>
GitCloneFlag_branch(n) == <<f_branch, n>>

(* ---------------------------------------------------------- the POSIX shell *)
(* How sh splits a command line into tokens (XCU 2.2 Quoting, 2.3 Token    *)
(* Recognition): a word is the sequence of its characters after quote      *)
(* removal; a control operator is the one-element sequence <<"op:...">>;   *)
(* an unquoted or double-quoted expansion leaves the mark "expand" in its  *)
(* word, an unterminated quote the mark "open".                            *)
NameStart ==
    (SafeChars \ {"%", "+", "=", ":", ",", ".", "/"})
        \cup {"$", "{", "(", "*", "#", "?", "!"}

OpChars == {";", "|", "&", "(", ")", "<", ">"}

EndWord(st) == IF st.inword THEN Append(st.out, st.cur) ELSE st.out

LexState(mode, cur, inword, out, skip) ==
    [mode |-> mode, cur |-> cur, inword |-> inword, out |-> out, skip |-> skip]

(* the tokenizer after the character s[i]; skip says that s[i + 1] was     *)
(* read together with s[i]                                                 *)
LexStep(s, i, st) ==
    LET c == s[i]
        more == i < Len(s)
        expands == c = BQ \/ (c = "$" /\ more /\ s[i + 1] \in NameStart)
        take(x, k) == LexState(st.mode, Append(st.cur, x), TRUE, st.out, k)
        to(m) == LexState(m, st.cur, TRUE, st.out, FALSE)
        operator(o, k) == LexState("plain", <<>>, FALSE, Append(EndWord(st), <<o>>), k)
    IN  IF st.skip THEN [st EXCEPT !.skip = FALSE]
        ELSE IF st.mode = "single"
        THEN IF c = "'" THEN to("plain") ELSE take(c, FALSE)
        ELSE IF st.mode = "double"
        THEN IF c = "\"" THEN to("plain")
             ELSE IF c = "\\" /\ more /\ s[i + 1] \in {"$", BQ, "\"", "\\"}
             THEN take(s[i + 1], TRUE)
             ELSE IF expands THEN take("expand", FALSE)
             ELSE take(c, FALSE)
        ELSE IF c = " " THEN LexState("plain", <<>>, FALSE, EndWord(st), FALSE)
        ELSE IF c = "'" THEN to("single")
        ELSE IF c = "\"" THEN to("double")
        ELSE IF c = "\\" THEN (IF more THEN take(s[i + 1], TRUE) ELSE take(c, FALSE))
        ELSE IF c \in OpChars
        THEN IF more /\ s[i + 1] = c /\ c \in {"&", "|", ";"}
             THEN operator("op:" \o c \o c, TRUE)
             ELSE operator("op:" \o c, FALSE)
        ELSE IF expands THEN take("expand", FALSE)
        ELSE take(c, FALSE)

(* the characters lo..hi are read left to right; halving the range, and   *)
(* looking at the left half's state before the right half starts, keeps    *)
(* the evaluation shallow                                                  *)
RECURSIVE LexRange(_, _, _, _)
LexRange(s, lo, hi, st) ==
    IF lo > hi THEN st
    ELSE IF lo = hi THEN LexStep(s, lo, st)
    ELSE LET mid == (lo + hi) \div 2
             left == LexRange(s, lo, mid, st)
         IN  IF left.skip \in BOOLEAN THEN LexRange(s, mid + 1, hi, left) ELSE left

ShellWords(s) ==
    LET st == LexRange(s, 1, Len(s), LexState("plain", <<>>, FALSE, <<>>, FALSE))
    IN  IF st.mode = "plain" THEN EndWord(st)
        ELSE Append(st.out, Append(st.cur, "open"))

OP_AND == <<"op:&&">>

(* ------------------------------------------------------ calling a method *)
(* A call is [pos |-> the positional arguments after self,                 *)
(*            kw  |-> the keyword arguments].                              *)
(* Bind gives the parameters their values as Python does: positionals in   *)
(* order, then keywords, then defaults; keywords that name no parameter    *)
(* are collected under "kwargs".                                           *)
Bind(params, defaults, call) ==
    LET npos == Len(call.pos)
        named == {params[i] : i \in 1..Len(params)}
        byPos == {params[i] : i \in 1..(IF npos < Len(params) THEN npos ELSE Len(params))}
        idx(p) == CHOOSE i \in 1..Len(params) : params[i] = p
    IN  IF npos > Len(params) THEN Raise("TypeError")
        ELSE IF byPos \cap DOMAIN call.kw # {} THEN Raise("TypeError")
        ELSE IF \E p \in named : p \notin byPos /\ p \notin DOMAIN call.kw
                                  /\ p \notin DOMAIN defaults
             THEN Raise("TypeError")
        ELSE [kind |-> "bound",
              a |-> [p \in named |->
                        IF p \in byPos THEN call.pos[idx(p)]
                        ELSE IF p \in DOMAIN call.kw THEN call.kw[p]
                        ELSE defaults[p]],
              kwargs |-> [k \in (DOMAIN call.kw) \ named |-> call.kw[k]]]

(* the external operator: constructing it is the hand-over to the executor *)
SSHOperator(d) == [kind |-> "SSHOperator", kwargs |-> d]

Out(r, calls) == [ret |-> r, ssh |-> calls]

(* ----------------------------------------------------------------- Docker *)
Docker_init(ssh_conn_id, username, password) ==
    [ssh_conn_id |-> ssh_conn_id, _username |-> username, _password |-> password]

login_tokens(d) ==
    <<w_docker, w_login, f_u, d._username.v, f_p, d._password.v>>

login_not_none(d) ==
    IF ~d._username.none /\ ~d._password.none
    THEN Some(Join(SP, safe_args(login_tokens(d))))
    ELSE None

Docker_login_command(d) ==
    IF Truthy(d._username) /\ Truthy(d._password)
    THEN Some(Join(SP, safe_args(login_tokens(d))))
    ELSE None

Docker_ssh(d, command, kwargs) ==
    IF "command" \in DOMAIN kwargs THEN Out(Raise("TypeError"), <<>>)
    ELSE LET kw == kwargs @@ ("ssh_conn_id" :> d.ssh_conn_id) @@ ("command" :> command)
         IN  Out(SSHOperator(kw), <<kw>>)

WithLogin_after(d, command) ==
    LET login_command == Docker_login_command(d)
    IN  IF Truthy(login_command) THEN command \o AND_AND \o login_command.v
        ELSE command

WithLogin(d, command) ==
    LET login_command == Docker_login_command(d)
    IN  IF Truthy(login_command) THEN login_command.v \o AND_AND \o command
        ELSE command

Finish(d, command, return_command, kwargs) ==
    IF return_command THEN Out(Str(command), <<>>)
    ELSE Docker_ssh(d, command, kwargs)

RunParams == <<"docker_flags", "image_name", "app_args", "return_command">>
RunDefaults == ("app_args" :> None) @@ ("return_command" :> FALSE)

run_args_first(docker_flags, image_name, app_args) ==
    <<w_docker, w_run>> \o app_args \o docker_flags \o <<image_name>>

run_tokens(docker_flags, image_name, app_args) ==
    <<w_docker, w_run>> \o docker_flags \o <<image_name>> \o app_args

Docker_run(d, call) ==
    LET b == Bind(RunParams, RunDefaults, call)
    IN  IF b.kind = "raise" THEN Out(b, <<>>)
        ELSE LET app_args == IF Truthy(b.a.app_args) THEN b.a.app_args.v ELSE <<>>
                 tokens == run_tokens(b.a.docker_flags, b.a.image_name, app_args)
                 command == Join(SP, safe_args(tokens))
             IN  Finish(d, WithLogin(d, command), b.a.return_command, b.kwargs)

BuildParams == <<"image_name", "docker_flags", "project_path", "return_command">>
BuildDefaults == ("project_path" :> DOT) @@ ("return_command" :> FALSE)

build_tag_first(docker_flags, image_name, project_path) ==
    <<w_docker, w_build, f_t, image_name>> \o docker_flags \o <<project_path>>

build_tokens(docker_flags, image_name, project_path) ==
    <<w_docker, w_build>> \o docker_flags \o <<f_t, image_name, project_path>>

Docker_build(d, call) ==
    LET b == Bind(BuildParams, BuildDefaults, call)
    IN  IF b.kind = "raise" THEN Out(b, <<>>)
        ELSE LET tokens == build_tokens(b.a.docker_flags, b.a.image_name, b.a.project_path)
                 command == Join(SP, safe_args(tokens))
             IN  Finish(d, WithLogin(d, command), b.a.return_command, b.kwargs)

(* -------------------------------------------------------------------- Git *)
(* __init__ sets no attribute *)
Git_init == <<>>

Git_ssh(g, command, kwargs) ==
    IF "command" \in DOMAIN kwargs THEN Out(Raise("TypeError"), <<>>)
    ELSE IF "ssh_conn_id" \notin DOMAIN g THEN Out(Raise("AttributeError"), <<>>)
    ELSE LET kw == kwargs @@ ("ssh_conn_id" :> g.ssh_conn_id) @@ ("command" :> command)
         IN  Out(SSHOperator(kw), <<kw>>)

CloneParams == <<"repository_url", "directory", "flags", "return_command">>
CloneDefaults == ("directory" :> DOT) @@ ("flags" :> None) @@ ("return_command" :> FALSE)

clone_tokens(flags, repository_url, directory) ==
    <<w_git, w_clone>> \o flags \o <<repository_url, directory>>

Git_clone(g, call) ==
    LET b == Bind(CloneParams, CloneDefaults, call)
    IN  IF b.kind = "raise" THEN Out(b, <<>>)
        ELSE IF b.a.flags.none THEN Out(Raise("TypeError"), <<>>)
        ELSE LET tokens == clone_tokens(b.a.flags.v, b.a.repository_url, b.a.directory)
                 command == Join(SP, safe_args(tokens))
             IN  IF b.a.return_command THEN Out(Str(command), <<>>)
                 ELSE Git_ssh(g, command, b.kwargs)

(* ------------------------------------------------------------ the inputs *)
BoundedSeq(S, n) == UNION {[1..k -> S] : k \in 0..n}

(* the lists a caller composes from at most MaxCalls builder calls *)
FlagLists(calls) == {Concat(s) : s \in BoundedSeq(calls, MaxCalls)}

Opt(nm, given, v) == IF given THEN nm :> v ELSE <<>>

ReturnCommand(rc) == Opt("return_command", rc # "omit", rc = "True")

s_myuser == <<"m", "y", "u", "s", "e", "r">>
s_mypassword == <<"m", "y", "p", "a", "s", "s", "w", "o", "r", "d">>
s_my_image == <<"m", "y", "_", "i", "m", "a", "g", "e">>
s_img == <<"i", "m", "g">>
s_arg1 == <<"a", "r", "g", "1">>
s_value1 == <<"v", "a", "l", "u", "e", "1">>
s_url == <<"h", "t", "t", "p", "s", ":", "/", "/", "e", "x", "a", "m", "p", "l", "e",
           "/", "r", "e", "p", "o", ".", "g", "i", "t">>

Usernames == {None, Some(<<>>), Some(s_myuser)}
Passwords == {None, Some(<<>>), Some(<<"p", " ", "$", "'">>)}
ConnIds == {"my_ssh_connection"}
ExecOptions == {"none", "task_id", "ssh_conn_id"}
ExecKw(o) == Opt(o, o # "none", IF o = "task_id" THEN "t1" ELSE "other")

Images == {s_img, <<"a", ";", "b">>}
Paths == {DOT, <<"m", "y", " ", "d", "i", "r">>}
Urls == {s_url, <<"u", "|", BQ, "x", BQ>>}
ArgTokens == {<<"-", "c">>, <<"e", "c", "h", "o", " ", "\"", "$", "x", "\"">>}

RunFlagCalls ==
    { DockerRunFlag_temp_container, DockerRunFlag_name(<<"x">>),
      DockerRunFlag_name(<<"a", " ", "'", "b">>) }

BuildFlagCalls ==
    { DockerBuildFlag_build_arg(<< <<s_arg1, s_value1>> >>),
      DockerBuildFlag_no_cache,
      DockerBuildFlag_file(<<"d", " ", "f">>) }

CloneFlagCalls ==
    { GitCloneFlag_verbose, GitCloneFlag_branch(<<>>),
      GitCloneFlag_branch(<<"m", "'", "1">>) }

(* -------------------------------------------------------------- the steps *)
(* Init is a constructed component; the caller makes one call on it; op, args, *)
(* ret and ssh record that call, what it returned or raised, and the        *)
(* operators it constructed. The component is read-only after construction, *)
(* so a second call on it starts from the state the first one started from. *)
NoCall == [pos |-> <<>>, kw |-> <<>>]
NoRet == [kind |-> "none"]

Init ==
    /\ self \in {Docker_init(c, u, p) : c \in ConnIds, u \in Usernames, p \in Passwords}
    /\ op = "__init__"
    /\ args = NoCall
    /\ ret = NoRet
    /\ ssh = <<>>

DockerRun ==
    /\ op = "__init__"
    /\ \E flags \in FlagLists(RunFlagCalls), img \in Images,
          given \in BOOLEAN, aa \in BoundedSeq(ArgTokens, MaxArgs),
          rc \in {"omit", "True", "False"}, o \in ExecOptions :
           /\ given \/ aa = <<>>
           /\ LET call == [pos |-> <<>>,
                           kw |-> ("docker_flags" :> flags) @@ ("image_name" :> img)
                                  @@ Opt("app_args", given, Some(aa))
                                  @@ ReturnCommand(rc) @@ ExecKw(o)]
                  out == Docker_run(self, call)
              IN  /\ op' = "run"
                  /\ args' = call
                  /\ ret' = out.ret
                  /\ ssh' = out.ssh
           /\ UNCHANGED self

DockerBuild ==
    /\ op = "__init__"
    /\ \E flags \in FlagLists(BuildFlagCalls), img \in Images,
          given \in BOOLEAN, path \in Paths,
          rc \in {"omit", "True", "False"}, o \in ExecOptions :
           /\ given \/ path = DOT
           /\ LET call == [pos |-> <<>>,
                           kw |-> ("docker_flags" :> flags) @@ ("image_name" :> img)
                                  @@ Opt("project_path", given, path)
                                  @@ ReturnCommand(rc) @@ ExecKw(o)]
                  out == Docker_build(self, call)
              IN  /\ op' = "build"
                  /\ args' = call
                  /\ ret' = out.ret
                  /\ ssh' = out.ssh
           /\ UNCHANGED self

GitClone ==
    /\ op = "__init__"
    /\ \E flags \in FlagLists(CloneFlagCalls), fgiven \in BOOLEAN, url \in Urls,
          dgiven \in BOOLEAN, dir \in Paths,
          rc \in {"omit", "True", "False"}, o \in ExecOptions :
           /\ fgiven \/ flags = <<>>
           /\ dgiven \/ dir = DOT
           /\ LET call == [pos |-> <<url>>,
                           kw |-> Opt("directory", dgiven, dir)
                                  @@ Opt("flags", fgiven, Some(flags))
                                  @@ ReturnCommand(rc) @@ ExecKw(o)]
                  out == Git_clone(Git_init, call)
              IN  /\ op' = "clone"
                  /\ args' = call
                  /\ ret' = out.ret
                  /\ ssh' = out.ssh
           /\ UNCHANGED self

(* test_docker_build, with its docker_obj fixture and its one parameter set *)
test_call ==
    [pos |-> <<DockerBuildFlag_build_arg(<< <<s_arg1, s_value1>> >>)>>,
     kw |-> ("image_name" :> s_my_image) @@ ("project_path" :> DOT)
            @@ ("return_command" :> TRUE)]

docker_obj == Docker_init("my_ssh_connection", Some(s_myuser), Some(s_mypassword))

TestDockerBuild ==
    LET out == Docker_build(docker_obj, test_call)
    IN  /\ op = "__init__"
        /\ op' = "test_docker_build"
        /\ args' = test_call
        /\ ret' = out.ret
        /\ ssh' = out.ssh
        /\ UNCHANGED self

Next == DockerRun \/ DockerBuild \/ GitClone \/ TestDockerBuild

Spec == Init /\ [][Next]_vars

(* ------------------------------------------------- the flag builders alone *)
Keys == {<<"K">>, <<"a", " ", "b">>, <<"8", "0">>}
Vals == {<<"v">>, <<"$", "v">>}
Names == {<<>>, <<"x">>, <<"m", "'", "1">>}

(* the dicts of at most MaxItems items: the keys of a dict are distinct *)
Dicts ==
    {m \in BoundedSeq(Keys \X Vals, MaxItems) :
        \A i, j \in 1..Len(m) : i # j => m[i][1] # m[j][1]}

List(l) == [kind |-> "list", value |-> l]

InitFlags ==
    /\ self = docker_obj
    /\ op = "input"
    /\ args \in [m : Dicts, s : Names]
    /\ ret = NoRet
    /\ ssh = <<>>

(* DockerRunFlag.detach() *)
Detach ==
    /\ op = "input"
    /\ op' = "detach"
    /\ ret' = List(DockerRunFlag_detach)
    /\ UNCHANGED <<self, args, ssh>>

(* DockerRunFlag.interactive() *)
Interactive ==
    /\ op = "input"
    /\ op' = "interactive"
    /\ ret' = List(DockerRunFlag_interactive)
    /\ UNCHANGED <<self, args, ssh>>

(* DockerRunFlag.tty() *)
Tty ==
    /\ op = "input"
    /\ op' = "tty"
    /\ ret' = List(DockerRunFlag_tty)
    /\ UNCHANGED <<self, args, ssh>>

(* DockerRunFlag.temp_container() *)
TempContainer ==
    /\ op = "input"
    /\ op' = "temp_container"
    /\ ret' = List(DockerRunFlag_temp_container)
    /\ UNCHANGED <<self, args, ssh>>

(* DockerRunFlag.name(s) *)
Name ==
    /\ op = "input"
    /\ op' = "name"
    /\ ret' = List(DockerRunFlag_name(args.s))
    /\ UNCHANGED <<self, args, ssh>>

(* DockerRunFlag.publish(m) *)
Publish ==
    /\ op = "input"
    /\ op' = "publish"
    /\ ret' = List(DockerRunFlag_publish(args.m))
    /\ UNCHANGED <<self, args, ssh>>

(* DockerRunFlag.env(m) *)
Env ==
    /\ op = "input"
    /\ op' = "env"
    /\ ret' = List(DockerRunFlag_env(args.m))
    /\ UNCHANGED <<self, args, ssh>>

(* DockerRunFlag.volume(m) *)
Volume ==
    /\ op = "input"
    /\ op' = "volume"
    /\ ret' = List(DockerRunFlag_volume(args.m))
    /\ UNCHANGED <<self, args, ssh>>

(* DockerBuildFlag.build_arg(m) *)
BuildArg ==
    /\ op = "input"
    /\ op' = "build_arg"
    /\ ret' = List(DockerBuildFlag_build_arg(args.m))
    /\ UNCHANGED <<self, args, ssh>>

(* DockerBuildFlag.file(s) *)
File ==
    /\ op = "input"
    /\ op' = "file"
    /\ ret' = List(DockerBuildFlag_file(args.s))
    /\ UNCHANGED <<self, args, ssh>>

(* DockerBuildFlag.no_cache() *)
NoCache ==
    /\ op = "input"
    /\ op' = "no_cache"
    /\ ret' = List(DockerBuildFlag_no_cache)
    /\ UNCHANGED <<self, args, ssh>>

(* DockerBuildFlag.target(s) *)
Target ==
    /\ op = "input"
    /\ op' = "target"
    /\ ret' = List(DockerBuildFlag_target(args.s))
    /\ UNCHANGED <<self, args, ssh>>

(* DockerBuildFlag.pull() *)
Pull ==
    /\ op = "input"
    /\ op' = "pull"
    /\ ret' = List(DockerBuildFlag_pull)
    /\ UNCHANGED <<self, args, ssh>>

(* DockerBuildFlag.platform(s) *)
Platform ==
    /\ op = "input"
    /\ op' = "platform"
    /\ ret' = List(DockerBuildFlag_platform(args.s))
    /\ UNCHANGED <<self, args, ssh>>

(* GitCloneFlag.verbose() *)
Verbose ==
    /\ op = "input"
    /\ op' = "verbose"
    /\ ret' = List(GitCloneFlag_verbose)
    /\ UNCHANGED <<self, args, ssh>>

(* GitCloneFlag.branch(s) *)
Branch ==
    /\ op = "input"
    /\ op' = "branch"
    /\ ret' = List(GitCloneFlag_branch(args.s))
    /\ UNCHANGED <<self, args, ssh>>

NextFlags ==
    \/ Detach \/ Interactive \/ Tty \/ TempContainer \/ Name \/ Publish \/ Env
    \/ Volume \/ BuildArg \/ File \/ NoCache \/ Target \/ Pull \/ Platform
    \/ Verbose \/ Branch

SpecFlags == InitFlags /\ [][NextFlags]_vars

(* --------------------------------------------------------- quoting alone *)
Alphabet == {"a", "$", BQ, "\"", "'", " ", ";", "|", "\\"}

Strings == BoundedSeq(Alphabet, MaxLen)

InitQuote ==
    /\ self = docker_obj
    /\ op = "input"
    /\ args \in [s : Strings]
    /\ ret = NoRet
    /\ ssh = <<>>

(* shlex.quote(s) *)
Quote ==
    /\ op = "input"
    /\ op' = "quote"
    /\ ret' = Str(shlex_quote(args.s))
    /\ UNCHANGED <<self, args, ssh>>

(* Git().clone(url, flags=GitCloneFlag.branch(s), return_command=True) *)
CloneBranch ==
    LET call == [pos |-> <<s_url>>,
                 kw |-> ("flags" :> Some(GitCloneFlag_branch(args.s)))
                        @@ ("return_command" :> TRUE)]
        out == Git_clone(Git_init, call)
    IN  /\ op = "input"
        /\ op' = "clone_branch"
        /\ ret' = out.ret
        /\ ssh' = out.ssh
        /\ UNCHANGED <<self, args>>

NextQuote == Quote \/ CloneBranch

SpecQuote == InitQuote /\ [][NextQuote]_vars

(* ================================================================ claims *)
Given(nm) == nm \in DOMAIN args.kw

WantsString == Given("return_command") /\ args.kw["return_command"]

Returned == ret.kind = "str"

IsCall == op \in {"run", "build", "clone"}

BothSet ==
    /\ ~self._username.none /\ self._username.v # <<>>
    /\ ~self._password.none /\ self._password.v # <<>>

NoCreds == self._username.none /\ self._password.none

Bare == Docker_init(self.ssh_conn_id, None, None)

LoginWords == <<w_docker, w_login, f_u, self._username.v, f_p, self._password.v>>

GivenAppArgs == IF Given("app_args") THEN args.kw["app_args"].v ELSE <<>>

GivenPath == IF Given("project_path") THEN args.kw["project_path"] ELSE DOT

GivenDir == IF Given("directory") THEN args.kw["directory"] ELSE DOT

RunWords ==
    <<w_docker, w_run>> \o args.kw["docker_flags"] \o <<args.kw["image_name"]>>
        \o GivenAppArgs

BuildWords ==
    <<w_docker, w_build>> \o args.kw["docker_flags"]
        \o <<f_t, args.kw["image_name"], GivenPath>>

CloneWords == <<w_git, w_clone>> \o args.kw["flags"].v \o <<args.pos[1], GivenDir>>

OpWords ==
    IF op = "run" THEN RunWords ELSE IF op = "build" THEN BuildWords ELSE CloneWords

Quoted(words) == Join(SP, [i \in 1..Len(words) |-> shlex_quote(words[i])])

Count(w, x) == Cardinality({i \in 1..Len(w) : w[i] = x})

(* the words after the first && of a command line, or all of them *)
AfterLogin(w) ==
    IF Count(w, OP_AND) = 0 THEN w
    ELSE LET k == CHOOSE i \in 1..Len(w) :
                     w[i] = OP_AND /\ \A j \in 1..(i - 1) : w[j] # OP_AND
         IN  SubSeq(w, k + 1, Len(w))

ExpectedBuild ==
    <<"d", "o", "c", "k", "e", "r", " ", "b", "u", "i", "l", "d", " ", "-",
      "-", "b", "u", "i", "l", "d", "-", "a", "r", "g", " ", "a", "r", "g",
      "1", "=", "v", "a", "l", "u", "e", "1", " ", "-", "t", " ", "m", "y",
      "_", "i", "m", "a", "g", "e", " ", ".">>

ExpectedRun ==
    <<"d", "o", "c", "k", "e", "r", " ", "r", "u", "n", " ", "-", "-", "r",
      "m", " ", "-", "-", "n", "a", "m", "e", " ", "x", " ", "i", "m", "g">>

ExpectedBranch ==
    <<"g", "i", "t", " ", "c", "l", "o", "n", "e", " ", "-", "-", "b", "r",
      "a", "n", "c", "h", " ", "'", "'", " ", "h", "t", "t", "p", "s", ":",
      "/", "/", "e", "x", "a", "m", "p", "l", "e", "/", "r", "e", "p", "o",
      ".", "g", "i", "t", " ", ".">>

(* C1: test_docker_build's call, Docker.build(docker_obj, flags,            *)
(* image_name='my_image', project_path='.', return_command=True), returns   *)
(* exactly "docker build --build-arg arg1=value1 -t my_image .".            *)
C1_TestReturnsExpected ==
    op = "test_docker_build" => Returned /\ ret.value = ExpectedBuild

C4_CloneUrlOnly ==
    (op = "clone" /\ ~Given("flags") /\ ~Given("directory") /\ WantsString) =>
        /\ Returned
        /\ ret.value = Quoted(<<w_git, w_clone, args.pos[1], DOT>>)

(* C5: the docker-build part of what build returns is                      *)
(* docker build <flags...> -t <image_name> <project_path>, the flags in     *)
(* the caller's order, project_path last and "." when omitted.              *)
C5_BuildLayout ==
    (op = "build" /\ Returned) =>
        LET w == AfterLogin(ShellWords(ret.value))
            n == Len(args.kw["docker_flags"])
        IN  /\ Len(w) = n + 5
            /\ SubSeq(w, 1, 2) = <<w_docker, w_build>>
            /\ SubSeq(w, 3, n + 2) = args.kw["docker_flags"]
            /\ w[n + 3] = f_t
            /\ w[n + 4] = args.kw["image_name"]
            /\ w[n + 5] = GivenPath
            /\ (~Given("project_path") => w[Len(w)] = DOT)

C5_Witness ==
    /\ op = "build" /\ Returned /\ ~Given("project_path")
    /\ Len(args.kw["docker_flags"]) > 2

(* C6: in every command string of build, run, the login prefix and clone,  *)
(* each token went through shell quoting exactly once, and the rest of the  *)
(* string is the single spaces and the " && ": the shell reads back the     *)
(* tokens the caller gave.                                                  *)
Commands ==
    IF ~IsCall THEN {}
    ELSE IF Returned THEN {ret.value}
    ELSE {ssh[i]["command"] : i \in 1..Len(ssh)}

HasLogin == op \in {"run", "build"} /\ BothSet

C6_QuotedOnce ==
    \A c \in Commands :
        /\ c = (IF HasLogin THEN Quoted(LoginWords) \o AND_AND ELSE <<>>)
               \o Quoted(OpWords)
        /\ ShellWords(c) = (IF HasLogin THEN LoginWords \o <<OP_AND>> ELSE <<>>)
                           \o OpWords

C6_Witness ==
    /\ op = "build" /\ HasLogin /\ ~Returned /\ Len(ssh) = 1
    /\ ssh[1]["command"] # Join(SP, LoginWords) \o AND_AND \o Join(SP, BuildWords)

(* C7: for every string over the alphabet, the shell reads the quoted      *)
(* string as exactly one word, the original; "" quotes to two single        *)
(* quotes, and clone with branch("") gives the two tokens --branch ''.      *)
C7_QuoteRoundTrip ==
    /\ op = "quote" =>
        /\ ShellWords(ret.value) = <<args.s>>
        /\ (args.s = <<>> => ret.value = <<"'", "'">>)
    /\ op = "clone_branch" =>
        /\ Returned
        /\ ShellWords(ret.value) = <<w_git, w_clone, f_branch, args.s, s_url, DOT>>
        /\ (args.s = <<>> => ret.value = ExpectedBranch)

C7_Witness ==
    /\ op = "quote"
    /\ Len(args.s) = 3
    /\ args.s[1] = "'" /\ args.s[2] = "$" /\ args.s[3] = " "

(* C8: with return_command=True the string is returned and no operator is  *)
(* constructed; otherwise exactly one is, with the component's connection   *)
(* id, the same string as its command and the caller's options, and it is   *)
(* what the call returns. (Stated for calls that pass flags to clone and do *)
(* not pass ssh_conn_id among the executor options.)                        *)
C8_ReturnOrExecute ==
    (IsCall /\ (op = "clone" => Given("flags")) /\ ~Given("ssh_conn_id")) =>
        LET c == (IF HasLogin THEN Quoted(LoginWords) \o AND_AND ELSE <<>>)
                 \o Quoted(OpWords)
        IN  IF WantsString THEN Returned /\ ret.value = c /\ ssh = <<>>
            ELSE /\ Len(ssh) = 1
                 /\ ssh[1]["command"] = c
                 /\ op # "clone" => ssh[1]["ssh_conn_id"] = self.ssh_conn_id
                 /\ Given("task_id") => ssh[1]["task_id"] = args.kw["task_id"]
                 /\ ret.kind = "SSHOperator"
                 /\ ret.kwargs = ssh[1]

(* C9: env, publish, volume and build_arg give, for a dict of n items, 2n  *)
(* tokens: per item, in the dict's order, the flag then key, separator,     *)
(* value; the empty dict gives the empty list.                              *)
PairBuilders == {"env", "publish", "volume", "build_arg"}

FlagOf(b) ==
    IF b = "env" THEN f_e ELSE IF b = "publish" THEN f_p
    ELSE IF b = "volume" THEN f_v ELSE f_build_arg

SepOf(b) == IF b \in {"env", "build_arg"} THEN <<"=">> ELSE <<":">>

C9_PairPerItem ==
    op \in PairBuilders =>
        /\ Len(ret.value) = 2 * Len(args.m)
        /\ \A i \in 1..Len(args.m) :
            /\ ret.value[2 * i - 1] = FlagOf(op)
            /\ ret.value[2 * i] = args.m[i][1] \o SepOf(op) \o args.m[i][2]

C9_Witness == op = "env" /\ Len(args.m) = 2 /\ Len(ret.value) = 4

(* C10: with only one of username and password, or either one empty, run   *)
(* and build add no login at all and return what a component without        *)
(* credentials returns for the same call.                                   *)
C10_NoPartialLogin ==
    (op \in {"run", "build"} /\ ~BothSet /\ Returned) =>
        /\ ret.value = Quoted(OpWords)
        /\ ret.value = (IF op = "run" THEN Docker_run(Bare, args).ret.value
                        ELSE Docker_build(Bare, args).ret.value)
        /\ Count(ShellWords(ret.value), OP_AND) = 0

C10_Witness ==
    /\ op = "build" /\ Returned
    /\ ~self._username.none /\ self._username.v = <<>>
    /\ ~self._password.none /\ self._password.v # <<>>

====
